---- MODULE Spec2Model ----
(***************************************************************************)
(* Model of startMongo (src/src/index.ts): configuration resolution, path  *)
(* planning, cached download / decompression, log preparation, argument    *)
(* construction, spawn, and the close() / shutdown-hook lifecycle.         *)
(*                                                                         *)
(* Strings are sequences of one-character strings, so that replace(),      *)
(* split() and the path functions are computed the way the code computes   *)
(* them.  An absent option / unset environment variable is the empty set,  *)
(* a present one the singleton of its value.                               *)
(***************************************************************************)
EXTENDS Integers, Sequences, FiniteSets, TLC

\* ------------------------------------------------------------------ bounds

\* Number of startMongo invocations of one host process (they may overlap).
MaxCalls == 2
\* Number of direct close() invocations the caller makes on one handle.
MaxCloses == 2
\* Number of writes a child makes to its log.
MaxWrites == 1

\* ----------------------------------------------------------------- strings

Val(opt) == CHOOSE v \in opt : TRUE

\* pat occurs in s at position i.
MatchAt(s, pat, i) ==
    /\ i >= 1
    /\ i + Len(pat) - 1 <= Len(s)
    /\ \A k \in 1..Len(pat) : s[i + k - 1] = pat[k]

\* String.prototype.indexOf, 1-based; 0 when pat does not occur.
IndexOf(s, pat) ==
    LET hits == {i \in 1..(Len(s) + 1) : MatchAt(s, pat, i)}
    IN  IF hits = {} THEN 0 ELSE CHOOSE i \in hits : \A j \in hits : i <= j

\* String.prototype.lastIndexOf, 1-based; 0 when pat does not occur.
LastIndexOf(s, pat) ==
    LET hits == {i \in 1..(Len(s) + 1) : MatchAt(s, pat, i)}
    IN  IF hits = {} THEN 0 ELSE CHOOSE i \in hits : \A j \in hits : i >= j

RECURSIVE GetSubstitution(_, _, _, _)
\* The replacement text of String.prototype.replace for a string pattern (no
\* captures): $$ is $, $& the match, $' the text after it; any other $ stays
\* as written.  (The pattern for the text before the match needs a backquote,
\* which the strings modelled here never contain.)
GetSubstitution(repl, matched, before, after) ==
    IF repl = <<>> THEN <<>>
    ELSE IF Head(repl) = "$" /\ Len(repl) >= 2
         THEN LET c    == repl[2]
                  rest == SubSeq(repl, 3, Len(repl))
              IN  CASE c = "$"  -> <<"$">> \o GetSubstitution(rest, matched, before, after)
                    [] c = "&"  -> matched \o GetSubstitution(rest, matched, before, after)
                    [] c = "'"  -> after \o GetSubstitution(rest, matched, before, after)
                    [] OTHER    -> <<"$">> \o GetSubstitution(Tail(repl), matched, before, after)
         ELSE <<Head(repl)>> \o GetSubstitution(Tail(repl), matched, before, after)

\* String.prototype.replace(pat, repl) with a string pattern: the FIRST
\* occurrence only.
Replace(s, pat, repl) ==
    LET i == IndexOf(s, pat)
    IN  IF i = 0 THEN s
        ELSE LET before == SubSeq(s, 1, i - 1)
                 after  == SubSeq(s, i + Len(pat), Len(s))
             IN  before \o GetSubstitution(repl, pat, before, after) \o after

RECURSIVE Split(_, _)
\* String.prototype.split(sep) for a one-character separator: every single
\* occurrence separates, so adjacent separators yield empty strings.
Split(s, sep) ==
    LET i == IndexOf(s, <<sep>>)
    IN  IF i = 0 THEN <<s>>
        ELSE <<SubSeq(s, 1, i - 1)>> \o Split(SubSeq(s, i + 1, Len(s)), sep)

RECURSIVE Digits(_)
\* Decimal digits of a natural number (number + '').
Digits(n) ==
    LET d == <<"0", "1", "2", "3", "4", "5", "6", "7", "8", "9">>
    IN  IF n < 10 THEN <<d[n + 1]>> ELSE Digits(n \div 10) \o <<d[(n % 10) + 1]>>

\* A port is a number or a string (MongoOptions.port: string | number).
NumPort(n) == [isNum |-> TRUE, n |-> n, s |-> <<>>]
StrPort(s) == [isNum |-> FALSE, n |-> 0, s |-> s]
\* opts.port + ''
PortString(p) == IF p.isNum THEN Digits(p.n) ELSE p.s

\* ------------------------------------------------------------------- paths

RECURSIVE JoinFrom(_, _)
JoinFrom(segs, i) ==
    IF i > Len(segs) THEN <<>>
    ELSE IF i = Len(segs) THEN segs[i]
    ELSE segs[i] \o <<"/">> \o JoinFrom(segs, i + 1)

IsAbsolute(p) == Len(p) >= 1 /\ p[1] = "/"

\* path.resolve(...segs) on POSIX for segments free of '.', '..' and doubled
\* or trailing slashes: the segments from the last absolute one on, joined
\* by '/'.  Relative results are resolved against the working directory.
PathResolve(segs) ==
    LET abs   == {i \in 1..Len(segs) : IsAbsolute(segs[i])}
        start == IF abs = {} THEN 1 ELSE CHOOSE i \in abs : \A j \in abs : i >= j
        tail  == JoinFrom(segs, start)
    IN  IF abs = {} THEN <<"/", "w", "/">> \o tail ELSE tail

\* path.extname(p): from the last '.' of the last path segment, '' if none
\* or if the segment starts with that '.'.
ExtName(p) ==
    LET slash == LastIndexOf(p, <<"/">>)
        base  == SubSeq(p, slash + 1, Len(p))
        dot   == LastIndexOf(base, <<".">>)
    IN  IF dot <= 1 THEN <<>> ELSE SubSeq(base, dot, Len(base))

\* ---------------------------------------------------------------- literals
S_mongo == <<"m", "o", "n", "g", "o">>
S_version == <<"4", ".", "2">>
S_exec == <<"b", "i", "n", "/", "m", "o", "n", "g", "o", "d">>
S_execArgs == <<"-", "-", "p", "o", "r", "t", " ", "{", "p", "o", "r", "t", "}", " ", "-", "-", "d", "b", "p", "a", "t", "h", " ", "{", "d", "a", "t", "a", "}">>
S_linux == <<"l", "i", "n", "u", "x">>
S_darwin == <<"d", "a", "r", "w", "i", "n">>
S_win32 == <<"w", "i", "n", "3", "2">>
S_srcLinux == <<"h", "t", "t", "p", ":", "/", "/", "d", "l", "/", "l", "i", "n", "u", "x", ".", "t", "g", "z">>
S_srcDarwin == <<"h", "t", "t", "p", ":", "/", "/", "d", "l", "/", "o", "s", "x", ".", "t", "g", "z">>
S_srcWin32 == <<"h", "t", "t", "p", ":", "/", "/", "d", "l", "/", "w", "i", "n", "3", "2", ".", "z", "i", "p">>
S_default == <<"d", "e", "f", "a", "u", "l", "t">>
S_tmp == <<"/", "t", "m", "p">>
S_data == <<"d", "a", "t", "a">>
S_logs == <<"l", "o", "g", "s">>
S_logsTxt == <<"l", "o", "g", "s", ".", "t", "x", "t">>
S_source == <<"s", "o", "u", "r", "c", "e">>
S_unpacked == <<"u", "n", "p", "a", "c", "k", "e", "d">>
S_portPh == <<"{", "p", "o", "r", "t", "}">>
S_dataPh == <<"{", "d", "a", "t", "a", "}">>
S_myDb == <<"m", "y", " ", "d", "b">>
S_unsupported == <<"u", "n", "s", "u", "p", "p", "o", "r", "t", "e", "d", "-", "o", "s">>
S_sunos == <<"s", "u", "n", "o", "s">>
S_quiet == <<"-", "-", "q", "u", "i", "e", "t">>
S_27112 == <<"2", "7", "1", "1", "2">>

\* ----------------------------------------------------------------- formula

\* The formula of ./formula (not among the sources): name, version, default
\* port, executable path inside the archive, argument template and the
\* ordered platform list, as the specification's data contract describes it.
formula ==
    [name     |-> S_mongo,
     version  |-> S_version,
     port     |-> 27017,
     exec     |-> S_exec,
     execArgs |-> S_execArgs,
     platforms |-> << [name |-> S_linux,  source |-> S_srcLinux],
                      [name |-> S_darwin, source |-> S_srcDarwin],
                      [name |-> S_win32,  source |-> S_srcWin32] >>]

\* process.platform and os.tmpdir() of the host.
HostPlatform == S_linux
TmpDir == S_tmp

\* ----------------------------------------------------------- configuration

\* The JavaScript value undefined: not a string (every modelled string is a
\* sequence of single characters).
Undefined == <<"undefined">>

\* A stretch of a file that was never written (reads as zero bytes).
Hole == -1

NoEnv == [MONGO_NAME |-> {}, MONGO_PORT |-> {}, PORT |-> {},
          MONGO_PLATFORM |-> {}, MONGO_DIR |-> {}]
NoOpts == [name |-> {}, platform |-> {}, dir |-> {}, port |-> {}, args |-> {}]

\* process.env.X || fallback: an unset or empty variable yields the fallback.
EnvOr(v, fallback) == IF v = {} \/ v = {<<>>} THEN fallback ELSE Val(v)

\* Lines 27-33: the defaults, overridden by every own property of the options
\* object (the spread copies a property whose value is undefined too).
ApplyDefaults(opts, env) ==
    LET defaults ==
            [name     |-> EnvOr(env.MONGO_NAME, S_default),
             port     |-> IF env.MONGO_PORT \notin {{}, {<<>>}}
                            THEN StrPort(Val(env.MONGO_PORT))
                          ELSE IF env.PORT \notin {{}, {<<>>}}
                            THEN StrPort(Val(env.PORT))
                          ELSE NumPort(formula.port),
             platform |-> EnvOr(env.MONGO_PLATFORM, HostPlatform),
             dir      |-> EnvOr(env.MONGO_DIR, PathResolve(<<TmpDir, S_mongo>>))]
    IN  [name     |-> IF opts.name = {} THEN defaults.name ELSE Val(opts.name),
         port     |-> IF opts.port = {} THEN defaults.port ELSE Val(opts.port),
         platform |-> IF opts.platform = {} THEN defaults.platform ELSE Val(opts.platform),
         dir      |-> IF opts.dir = {} THEN defaults.dir ELSE Val(opts.dir),
         args     |-> opts.args]

\* A plausible slip: an unknown platform name falls back to the first entry.
FindPlatformOrFirst(name) ==
    {formula.platforms[1]}

\* Line 36: formula.platforms.find(p => p.name === opts.platform); the empty
\* set when there is none, else the singleton of the first match.
FindPlatform(name) ==
    LET hits == {i \in 1..Len(formula.platforms) : formula.platforms[i].name = name}
    IN  IF hits = {} THEN {}
        ELSE {formula.platforms[CHOOSE i \in hits : \A j \in hits : i <= j]}

\* Lines 42-49: the planned paths.
ResolvePaths(o, platform) ==
    LET dataDir        == PathResolve(<<o.dir, S_data, o.name, formula.name>>)
        logsDir        == PathResolve(<<o.dir, S_logs, o.name, formula.name>>)
        sourceDir      == PathResolve(<<o.dir, S_source, formula.name,
                                        formula.version, platform.name>>)
        sourceFileName == formula.name \o <<"-">> \o formula.version \o <<"-">>
                          \o platform.name \o ExtName(platform.source)
        extractDir     == PathResolve(<<sourceDir, S_unpacked>>)
    IN  [dataDir        |-> dataDir,
         logsDir        |-> logsDir,
         logFile        |-> PathResolve(<<logsDir, S_logsTxt>>),
         sourceDir      |-> sourceDir,
         sourceFileName |-> sourceFileName,
         sourceFile     |-> PathResolve(<<sourceDir, sourceFileName>>),
         extractDir     |-> extractDir,
         execFile       |-> PathResolve(<<extractDir, formula.exec>>)]

\* Lines 82-85: the argument list handed to execa.
ExecArgs(o, dataDir) ==
    LET execArgs == Split(Replace(Replace(formula.execArgs, S_portPh, PortString(o.port)),
                                  S_dataPh, dataDir), " ")
    IN  IF o.args # {} THEN execArgs \o Val(o.args) ELSE execArgs

\* ------------------------------------------------------------------ inputs

Calls == 1..MaxCalls

\* The option objects the callers pass.
Options ==
    { NoOpts,
      [NoOpts EXCEPT !.name = {S_myDb}, !.port = {NumPort(27111)}],
      [NoOpts EXCEPT !.name = {S_myDb}, !.port = {StrPort(S_27112)}, !.args = {<<S_quiet>>}],
      [NoOpts EXCEPT !.platform = {S_unsupported}],
      [NoOpts EXCEPT !.platform = {Undefined}] }

\* The environments a call may run in.
Envs ==
    { NoEnv,
      [NoEnv EXCEPT !.MONGO_NAME = {<<>>}, !.PORT = {S_27112},
                    !.MONGO_PLATFORM = {S_sunos}] }

\* Paths of the default configuration: the cache left by earlier host
\* processes is described at these.
DefaultPaths ==
    ResolvePaths(ApplyDefaults(NoOpts, NoEnv), Val(FindPlatform(HostPlatform)))

\* Filesystem states an earlier host process may have left behind: nothing;
\* a complete tree whose archive was deleted; and a complete installation
\* with the log of the previous run.  (An archive without a tree, truncated
\* archives and partly written trees arise from the calls themselves.)
InitialDisks ==
    LET q == DefaultPaths
    IN  { [dirs |-> {}, present |-> {}, intact |-> {}, trees |-> {}, logs |-> {}],
          [dirs |-> {q.sourceDir, q.extractDir}, present |-> {q.execFile},
           intact |-> {q.execFile}, trees |-> {q.extractDir}, logs |-> {}],
          [dirs |-> {q.sourceDir, q.extractDir, q.dataDir, q.logsDir},
           present |-> {q.sourceFile, q.execFile},
           intact |-> {q.sourceFile, q.execFile}, trees |-> {q.extractDir},
           logs |-> {[path |-> q.logFile, inode |-> 0, data |-> <<0>>]}] }

\* ------------------------------------------------------------------- state

VARIABLES
    pc,        \* per call: where the invocation stands
    given,     \* per call: {} or {the options object and the environment it was made with}
    logsFile,  \* per call: {} or {the descriptor of line 77: its file and offset}
    cfg,       \* per call: {} or {the options after the defaults were applied}
    err,       \* per call: "" or the step whose error was thrown
    ops,       \* per call: the I/O operations it has started, in order
    chk,       \* per call: {} or {the disk as it was at the check of lines 58-59}
    prior,     \* per call: the calls that had ended when it was made
    io,        \* per call: how far its pending operation has got on the disk:
               \* "pending", "read", "partial", or "done" (result not delivered yet)
    dirs,      \* directories that exist
    present,   \* archive and executable files that exist
    intact,    \* those of them that are completely written
    trees,     \* extraction directories holding the complete tree
    logs,      \* log files that exist: [path, inode, data]; inode names the
               \* call that created the file (0: an earlier host process),
               \* data what it holds, unit by unit: the child that wrote the
               \* unit (0: an earlier host process), or Hole
    server,    \* per call: the child process of the returned handle
    cancels,   \* per call: server.cancel() invocations
    kills,     \* per call: termination signals delivered to the live child
    closes,    \* per call: direct close() invocations by the caller
    closeErrs, \* per call: close() invocations that threw or gave a rejected promise
    hooks,     \* callbacks registered with onShutdown, in order (call ids)
    hostAlive  \* the host process has not been shut down

vars == <<pc, given, logsFile, cfg, err, ops, chk, prior, io, dirs, present, intact, trees,
          logs, server, cancels, kills, closes, closeErrs, hooks, hostAlive>>

callVars  == <<pc, given, logsFile, cfg, err, ops, chk, prior, io>>
diskVars  == <<dirs, present, intact, trees, logs>>
childVars == <<server, cancels, kills, closes, closeErrs, hooks>>

NoServer == [state |-> "none", file |-> <<>>, args |-> <<>>, stdout |-> 0, stderr |-> 0]

Init ==
    /\ pc = [c \in Calls |-> "idle"]
    /\ given = [c \in Calls |-> {}]
    /\ logsFile = [c \in Calls |-> {}]
    /\ cfg = [c \in Calls |-> {}]
    /\ err = [c \in Calls |-> ""]
    /\ ops = [c \in Calls |-> <<>>]
    /\ chk = [c \in Calls |-> {}]
    /\ prior = [c \in Calls |-> {}]
    /\ io = [c \in Calls |-> "pending"]
    /\ \E d \in InitialDisks :
          /\ dirs = d.dirs
          /\ present = d.present
          /\ intact = d.intact
          /\ trees = d.trees
          /\ logs = d.logs
    /\ server = [c \in Calls |-> NoServer]
    /\ cancels = [c \in Calls |-> 0]
    /\ kills = [c \in Calls |-> 0]
    /\ closes = [c \in Calls |-> 0]
    /\ closeErrs = [c \in Calls |-> 0]
    /\ hooks = <<>>
    /\ hostAlive = TRUE

\* The platform entry and the planned paths of a call past line 39.
PlatformOf(c) == Val(FindPlatform(Val(cfg[c]).platform))
P(c) == ResolvePaths(Val(cfg[c]), PlatformOf(c))

\* The error of step `step` propagates out of the async function: the call is
\* rejected and nothing after the step runs.
Reject(c, step) ==
    /\ pc' = [pc EXCEPT ![c] = "rejected"]
    /\ err' = [err EXCEPT ![c] = step]

\* The error taxonomy of the specification, by failing step.
ErrorKind(step) ==
    CASE step = "platform"   -> "UnsupportedPlatformError"
      [] step = "download"   -> "AcquisitionError"
      [] step = "decompress" -> "ExtractionError"
      [] step = "spawn"      -> "LaunchError"
      [] OTHER               -> "FilesystemError"

\* ----------------------------------------------------------------- actions

\* A plausible slip: the executable is looked up beside 'unpacked', not in it.
InstalledWrongPath(q) ==
    /\ q.extractDir \in dirs
    /\ PathResolve(<<q.sourceDir, formula.exec>>) \in present

\* A plausible slip: || and && confused in the check of line 58.
InstalledEither(q) ==
    \/ q.extractDir \in dirs
    \/ q.execFile \in present

\* Line 58, negated: both extractDir and execFile exist.
Installed(q) ==
    /\ q.extractDir \in dirs
    /\ q.execFile \in present

\* A plausible slip: the archive is fetched without looking for a cached copy.
NeedsDownloadAlways(q) == TRUE

\* A plausible slip (or a lock): no download is issued while another call is
\* downloading the same archive.
NeedsDownloadUnlessInFlight(q) ==
    /\ q.sourceFile \notin present
    /\ ~\E d \in Calls : pc[d] \in {"downloading", "writing"} /\ P(d).sourceFile = q.sourceFile

\* Line 59: the archive is missing.
NeedsDownload(q) == q.sourceFile \notin present

\* Lines 26-52: apply the defaults, find the platform (throwing when there is
\* none), plan the paths and start creating dataDir.
Start(c, o, e) ==
    /\ hostAlive
    /\ pc[c] = "idle"
    /\ \A d \in Calls : d < c => pc[d] # "idle"
    /\ LET r == ApplyDefaults(o, e)
       IN  /\ given' = [given EXCEPT ![c] = {[opts |-> o, env |-> e]}]
           /\ cfg' = [cfg EXCEPT ![c] = {r}]
           /\ prior' = [prior EXCEPT ![c] = {d \in Calls : pc[d] \in {"returned", "rejected"}}]
           /\ IF FindPlatform(r.platform) = {}
                THEN /\ Reject(c, "platform")
                     /\ ops' = ops
                ELSE /\ pc' = [pc EXCEPT ![c] = "mkdirData"]
                     /\ ops' = [ops EXCEPT ![c] = Append(@, "mkdirp:data")]
                     /\ err' = err
    /\ UNCHANGED <<logsFile, chk, io, diskVars, childVars, hostAlive>>

\* Line 52, the system calls: mkdirp(dataDir) has created the directory on
\* the thread pool; the call resumes when the event loop delivers the result.
MkdirDataSys(c) ==
    /\ hostAlive
    /\ pc[c] = "mkdirData"
    /\ io[c] = "pending"
    /\ dirs' = dirs \cup {P(c).dataDir}
    /\ io' = [io EXCEPT ![c] = "done"]
    /\ UNCHANGED <<pc, given, logsFile, cfg, err, ops, chk, prior, present, intact,
                   trees, logs, childVars, hostAlive>>

\* Lines 52-62/68-69/72, the continuation after the await of line 52: the
\* cache is checked and the first step it calls for is started.
MkdirDataDone(c) ==
    /\ hostAlive
    /\ pc[c] = "mkdirData"
    /\ io[c] = "done"
    /\ LET q == P(c)
           installed == Installed(q)
           download  == ~installed /\ NeedsDownload(q)
       IN  /\ chk' = [chk EXCEPT ![c] = {[extractDir |-> q.extractDir \in dirs,
                                          execFile   |-> q.execFile \in present,
                                          sourceFile |-> q.sourceFile \in present,
                                          archiveIntact |-> q.sourceFile \in intact,
                                          treeComplete  |-> q.extractDir \in trees]}]
           /\ pc' = [pc EXCEPT ![c] = IF installed THEN "mkdirLogs"
                                      ELSE IF download THEN "downloading"
                                      ELSE "decompressing"]
           /\ ops' = [ops EXCEPT ![c] = Append(@, IF installed THEN "mkdirp:logs"
                                                  ELSE IF download THEN "download"
                                                  ELSE "decompress")]
    /\ io' = [io EXCEPT ![c] = "pending"]
    /\ UNCHANGED <<given, logsFile, cfg, err, prior, diskVars, childVars, hostAlive>>

\* Line 52 threw.
MkdirDataFail(c) ==
    /\ hostAlive
    /\ pc[c] = "mkdirData"
    /\ io[c] = "pending"
    /\ Reject(c, "mkdirp:data")
    /\ UNCHANGED <<given, logsFile, cfg, ops, chk, prior, io, diskVars, childVars, hostAlive>>

\* A plausible slip: the promise of download() is not awaited, so the
\* decompression starts while the archive is still being written.
DownloadFetchedNoAwait(c) ==
    /\ hostAlive
    /\ pc[c] = "downloading"
    /\ pc' = [pc EXCEPT ![c] = "decompressing"]
    /\ ops' = [ops EXCEPT ![c] = Append(@, "decompress")]
    /\ dirs' = dirs \cup {P(c).sourceDir}
    /\ present' = present \cup {P(c).sourceFile}
    /\ intact' = intact \ {P(c).sourceFile}
    /\ UNCHANGED <<given, logsFile, cfg, err, chk, prior, io, trees, logs, childVars, hostAlive>>

\* Line 62, first half: the transfer completed in memory; download() creates
\* sourceDir and opens sourceFile for writing, truncating it.
DownloadFetched(c) ==
    /\ hostAlive
    /\ pc[c] = "downloading"
    /\ pc' = [pc EXCEPT ![c] = "writing"]
    /\ dirs' = dirs \cup {P(c).sourceDir}
    /\ present' = present \cup {P(c).sourceFile}
    /\ intact' = intact \ {P(c).sourceFile}
    /\ UNCHANGED <<given, logsFile, cfg, err, ops, chk, prior, io, trees, logs, childVars, hostAlive>>

\* Line 66 threw on a network failure: nothing was written.
DownloadFail(c) ==
    /\ hostAlive
    /\ pc[c] = "downloading"
    /\ Reject(c, "download")
    /\ UNCHANGED <<given, logsFile, cfg, ops, chk, prior, io, diskVars, childVars, hostAlive>>

\* Line 62, second half: download() has written the whole archive through
\* its descriptor; the file is complete, whoever else has it open for
\* writing.  The call resumes later.
WriteSys(c) ==
    /\ hostAlive
    /\ pc[c] = "writing"
    /\ io[c] = "pending"
    /\ intact' = intact \cup {P(c).sourceFile}
    /\ io' = [io EXCEPT ![c] = "done"]
    /\ UNCHANGED <<pc, given, logsFile, cfg, err, ops, chk, prior, dirs, present,
                   trees, logs, childVars, hostAlive>>

\* Lines 66-69, the continuation after the await of line 62: decompression
\* starts.
WriteDone(c) ==
    /\ hostAlive
    /\ pc[c] = "writing"
    /\ io[c] = "done"
    /\ pc' = [pc EXCEPT ![c] = "decompressing"]
    /\ ops' = [ops EXCEPT ![c] = Append(@, "decompress")]
    /\ io' = [io EXCEPT ![c] = "pending"]
    /\ UNCHANGED <<given, logsFile, cfg, err, chk, prior, diskVars, childVars, hostAlive>>

\* Line 66 threw while the file was being written: the file stays as it is.
WriteFail(c) ==
    /\ hostAlive
    /\ pc[c] = "writing"
    /\ io[c] = "pending"
    /\ Reject(c, "download")
    /\ UNCHANGED <<given, logsFile, cfg, ops, chk, prior, io, diskVars, childVars, hostAlive>>

\* Line 69, decompress() reads the archive, whole, as it is at that moment;
\* a truncated archive makes it fail.
DecompressRead(c) ==
    /\ hostAlive
    /\ pc[c] = "decompressing"
    /\ io[c] = "pending"
    /\ P(c).sourceFile \in intact
    /\ io' = [io EXCEPT ![c] = "read"]
    /\ UNCHANGED <<pc, given, logsFile, cfg, err, ops, chk, prior, diskVars,
                   childVars, hostAlive>>

\* How far the writing of execFile has got when the extraction stands
\* part-way: not started, under way (the file is there, truncated), or
\* finished (the file is whole while later entries are still missing).
ExecWritten == {"none", "part", "whole"}

\* Line 69, decompress() writes the entries one after the other: extractDir
\* is there, and perhaps execFile already, while the tree is incomplete.
DecompressPartial(c, wroteExec) ==
    /\ hostAlive
    /\ pc[c] = "decompressing"
    /\ io[c] = "read"
    /\ dirs' = dirs \cup {P(c).extractDir}
    /\ present' = IF wroteExec = "none" THEN present ELSE present \cup {P(c).execFile}
    /\ intact' = CASE wroteExec = "none"  -> intact
                   [] wroteExec = "part"  -> intact \ {P(c).execFile}
                   [] wroteExec = "whole" -> intact \cup {P(c).execFile}
    /\ trees' = trees \ {P(c).extractDir}
    /\ io' = [io EXCEPT ![c] = "partial"]
    /\ UNCHANGED <<pc, given, logsFile, cfg, err, ops, chk, prior, logs, childVars, hostAlive>>

\* Line 69, decompress() has written the whole tree; the call resumes later.
DecompressSys(c) ==
    /\ hostAlive
    /\ pc[c] = "decompressing"
    /\ io[c] = "partial"
    /\ dirs' = dirs \cup {P(c).extractDir}
    /\ present' = present \cup {P(c).execFile}
    /\ intact' = intact \cup {P(c).execFile}
    /\ trees' = trees \cup {P(c).extractDir}
    /\ io' = [io EXCEPT ![c] = "done"]
    /\ UNCHANGED <<pc, given, logsFile, cfg, err, ops, chk, prior, logs, childVars, hostAlive>>

\* Lines 69-72, the continuation after the await of line 69: logsDir
\* creation starts.
DecompressDone(c) ==
    /\ hostAlive
    /\ pc[c] = "decompressing"
    /\ io[c] = "done"
    /\ pc' = [pc EXCEPT ![c] = "mkdirLogs"]
    /\ ops' = [ops EXCEPT ![c] = Append(@, "mkdirp:logs")]
    /\ io' = [io EXCEPT ![c] = "pending"]
    /\ UNCHANGED <<given, logsFile, cfg, err, chk, prior, diskVars, childVars, hostAlive>>

\* Line 69 threw: a corrupt archive (nothing written) or a failure part-way
\* through writing the tree (what was written stays).
DecompressFail(c) ==
    /\ hostAlive
    /\ pc[c] = "decompressing"
    /\ io[c] # "done"
    /\ Reject(c, "decompress")
    /\ UNCHANGED <<given, logsFile, cfg, ops, chk, prior, io, diskVars, childVars, hostAlive>>

\* Line 72, the system calls: mkdirp(logsDir) has created the directory.
MkdirLogsSys(c) ==
    /\ hostAlive
    /\ pc[c] = "mkdirLogs"
    /\ io[c] = "pending"
    /\ dirs' = dirs \cup {P(c).logsDir}
    /\ io' = [io EXCEPT ![c] = "done"]
    /\ UNCHANGED <<pc, given, logsFile, cfg, err, ops, chk, prior, present, intact,
                   trees, logs, childVars, hostAlive>>

\* Lines 72-73, the continuation after the await of line 72: removal of the
\* old log starts.
MkdirLogsDone(c) ==
    /\ hostAlive
    /\ pc[c] = "mkdirLogs"
    /\ io[c] = "done"
    /\ pc' = [pc EXCEPT ![c] = "removeLog"]
    /\ ops' = [ops EXCEPT ![c] = Append(@, "remove")]
    /\ io' = [io EXCEPT ![c] = "pending"]
    /\ UNCHANGED <<given, logsFile, cfg, err, chk, prior, diskVars, childVars, hostAlive>>

\* Line 72 threw.
MkdirLogsFail(c) ==
    /\ hostAlive
    /\ pc[c] = "mkdirLogs"
    /\ io[c] = "pending"
    /\ Reject(c, "mkdirp:logs")
    /\ UNCHANGED <<given, logsFile, cfg, ops, chk, prior, io, diskVars, childVars, hostAlive>>

\* A plausible slip: the old log is left in place, the truncation done by
\* open(logFile, 'w+') being taken as enough.
RemoveSysNothing(c) ==
    /\ hostAlive
    /\ pc[c] = "removeLog"
    /\ io[c] = "pending"
    /\ io' = [io EXCEPT ![c] = "done"]
    /\ UNCHANGED <<pc, given, logsFile, cfg, err, ops, chk, prior, diskVars,
                   childVars, hostAlive>>

\* Line 73, the system call: logFile is unlinked (a no-op when absent).
RemoveSys(c) ==
    /\ hostAlive
    /\ pc[c] = "removeLog"
    /\ io[c] = "pending"
    /\ logs' = {l \in logs : l.path # P(c).logFile}
    /\ io' = [io EXCEPT ![c] = "done"]
    /\ UNCHANGED <<pc, given, logsFile, cfg, err, ops, chk, prior, dirs, present,
                   intact, trees, childVars, hostAlive>>

\* Lines 73-77, the continuation after the await of line 73: opening starts.
RemoveDone(c) ==
    /\ hostAlive
    /\ pc[c] = "removeLog"
    /\ io[c] = "done"
    /\ pc' = [pc EXCEPT ![c] = "openLog"]
    /\ ops' = [ops EXCEPT ![c] = Append(@, "open")]
    /\ io' = [io EXCEPT ![c] = "pending"]
    /\ UNCHANGED <<given, logsFile, cfg, err, chk, prior, diskVars, childVars, hostAlive>>

\* A plausible slip: the failure to remove the old log is swallowed and the
\* call goes on to open the file.
RemoveFailIgnored(c) ==
    /\ hostAlive
    /\ pc[c] = "removeLog"
    /\ io[c] = "pending"
    /\ err' = [err EXCEPT ![c] = "remove"]
    /\ pc' = [pc EXCEPT ![c] = "openLog"]
    /\ ops' = [ops EXCEPT ![c] = Append(@, "open")]
    /\ UNCHANGED <<given, logsFile, cfg, chk, prior, io, diskVars, childVars, hostAlive>>

\* Line 73 threw.
RemoveFail(c) ==
    /\ hostAlive
    /\ pc[c] = "removeLog"
    /\ io[c] = "pending"
    /\ Reject(c, "remove")
    /\ UNCHANGED <<given, logsFile, cfg, ops, chk, prior, io, diskVars, childVars, hostAlive>>

\* Line 77, the system call: open(logFile, 'w+') has run on the thread pool.
\* The file is created, or truncated if some other call created it
\* meanwhile; the descriptor starts at offset 0.  The call itself resumes
\* later, when the event loop delivers the completion.
OpenDone(c) ==
    /\ hostAlive
    /\ pc[c] = "openLog"
    /\ LET q     == P(c)
           there == {l \in logs : l.path = q.logFile}
           inode == IF there = {} THEN c ELSE (CHOOSE l \in there : TRUE).inode
       IN  /\ logs' = (logs \ there) \cup {[path |-> q.logFile, inode |-> inode, data |-> <<>>]}
           /\ logsFile' = [logsFile EXCEPT ![c] = {[inode |-> inode, offset |-> 0]}]
    /\ pc' = [pc EXCEPT ![c] = "spawning"]
    /\ UNCHANGED <<given, cfg, err, ops, chk, prior, io, dirs, present, intact,
                   trees, childVars, hostAlive>>

\* A plausible slip: the shutdown callback is registered twice.
SpawnRegisterTwice(c, spawned) ==
    /\ hostAlive
    /\ pc[c] = "spawning"
    /\ spawned => P(c).execFile \in present
    /\ LET q == P(c)
       IN  server' = [server EXCEPT ![c] =
                         [state |-> IF spawned THEN "running" ELSE "failed",
                          file  |-> q.execFile,
                          args  |-> ExecArgs(Val(cfg[c]), q.dataDir),
                          stdout |-> Val(logsFile[c]).inode,
                          stderr |-> Val(logsFile[c]).inode]]
    /\ hooks' = hooks \o <<c, c>>
    /\ ops' = [ops EXCEPT ![c] = @ \o <<"spawn", "onShutdown", "onShutdown">>]
    /\ pc' = [pc EXCEPT ![c] = "returned"]
    /\ UNCHANGED <<given, logsFile, cfg, err, chk, prior, io, diskVars,
                   cancels, kills, closes, closeErrs, hostAlive>>

\* Lines 77-101, the continuation after the await of line 77: stdout and
\* stderr are both the descriptor just opened; the arguments are built;
\* execa spawns the child, which never throws here: a failed spawn (ENOENT,
\* EACCES) is reported later through the returned child, which nothing
\* awaits; close is defined, the shutdown callback registered and the handle
\* returned.
Spawn(c, spawned) ==
    /\ hostAlive
    /\ pc[c] = "spawning"
    /\ spawned => P(c).execFile \in present
    /\ LET q == P(c)
       IN  server' = [server EXCEPT ![c] =
                         [state |-> IF spawned THEN "running" ELSE "failed",
                          file  |-> q.execFile,
                          args  |-> ExecArgs(Val(cfg[c]), q.dataDir),
                          stdout |-> Val(logsFile[c]).inode,
                          stderr |-> Val(logsFile[c]).inode]]
    /\ hooks' = Append(hooks, c)
    /\ ops' = [ops EXCEPT ![c] = @ \o <<"spawn", "onShutdown">>]
    /\ pc' = [pc EXCEPT ![c] = "returned"]
    /\ UNCHANGED <<given, logsFile, cfg, err, chk, prior, io, diskVars,
                   cancels, kills, closes, closeErrs, hostAlive>>

\* Line 77 threw.
OpenFail(c) ==
    /\ hostAlive
    /\ pc[c] = "openLog"
    /\ Reject(c, "open")
    /\ UNCHANGED <<given, logsFile, cfg, ops, chk, prior, io, diskVars, childVars, hostAlive>>

Alive(c) == server[c].state \in {"running", "terminating"}

\* Line 94, run n times on the handle of call c: every run calls
\* server.cancel(), which signals the child if it has not exited.
AfterClose(srv, c, n) ==
    IF n > 0 /\ srv[c].state \in {"running", "terminating"}
      THEN [srv[c] EXCEPT !.state = "terminating"]
      ELSE srv[c]

\* A plausible slip: close() goes by what kill() returned and reports a
\* failure when no signal could be delivered
\* (close = () => server.kill() ? Promise.resolve() : Promise.reject(...)).
CloseResultBySignal(srv) ==
    IF srv.state \in {"running", "terminating"} THEN "resolved" ELSE "rejected"

\* Line 94, the result of one close(): server.cancel() returns normally
\* whatever state the child is in (it sends nothing to a child that has
\* exited, and reports that by its value, not by an exception), and
\* Promise.resolve wraps whatever it returned; neither the value nor the
\* promise of the child itself is looked at.
CloseResult(srv) == "resolved"

\* The caller invokes close() of the handle of call c.
Close(c) ==
    /\ hostAlive
    /\ pc[c] = "returned"
    /\ closes[c] < MaxCloses
    /\ closes' = [closes EXCEPT ![c] = @ + 1]
    /\ cancels' = [cancels EXCEPT ![c] = @ + 1]
    /\ kills' = [kills EXCEPT ![c] = IF Alive(c) THEN @ + 1 ELSE @]
    /\ closeErrs' = [closeErrs EXCEPT ![c] =
                        IF CloseResult(server[c]) = "resolved" THEN @ ELSE @ + 1]
    /\ server' = [server EXCEPT ![c] = AfterClose(server, c, 1)]
    /\ UNCHANGED <<callVars, diskVars, hooks, hostAlive>>

\* Number of callbacks registered for the handle of call c.
Hooked(c) == Cardinality({i \in 1..Len(hooks) : hooks[i] = c})

\* Line 96: a termination signal reaches the host; the shutdown hook runs
\* every registered callback once and the host process exits, abandoning
\* the calls still under way.
Shutdown ==
    /\ hostAlive
    /\ hostAlive' = FALSE
    /\ cancels' = [c \in Calls |-> cancels[c] + Hooked(c)]
    /\ kills' = [c \in Calls |-> IF Alive(c) THEN kills[c] + Hooked(c) ELSE kills[c]]
    /\ closeErrs' = [c \in Calls |->
                        IF CloseResult(server[c]) = "resolved"
                          THEN closeErrs[c]
                          ELSE closeErrs[c] + Hooked(c)]
    /\ server' = [c \in Calls |-> AfterClose(server, c, Hooked(c))]
    /\ UNCHANGED <<callVars, diskVars, closes, hooks>>

\* The child process exits, on its own or after a termination signal.
ChildExit(c) ==
    /\ Alive(c)
    /\ server' = [server EXCEPT ![c].state = "exited"]
    /\ UNCHANGED <<callVars, diskVars, cancels, kills, closes, closeErrs, hooks, hostAlive>>

\* What a file holds after the unit `by` is written at offset `off`: a write
\* inside the file replaces what was there, a write past its end leaves a
\* hole in between.
WriteAt(data, off, by) ==
    IF off < Len(data)
      THEN [data EXCEPT ![off + 1] = by]
      ELSE data \o [i \in 1..(off - Len(data)) |-> Hole] \o <<by>>

\* The running child writes one unit to its standard output or standard
\* error (one descriptor, one offset).  The write lands at the offset of the
\* descriptor, whatever other descriptors did to the file; when the file has
\* been unlinked the write succeeds all the same and shows at no path.
ChildWrite(c) ==
    /\ Alive(c)
    /\ Val(logsFile[c]).offset < MaxWrites
    /\ \E fd \in {server[c].stdout, server[c].stderr} :
          logs' = {IF l.inode = fd
                     THEN [l EXCEPT !.data = WriteAt(@, Val(logsFile[c]).offset, c)]
                     ELSE l : l \in logs}
    /\ logsFile' = [logsFile EXCEPT ![c] = {[Val(@) EXCEPT !.offset = @ + 1]}]
    /\ UNCHANGED <<pc, given, cfg, err, ops, chk, prior, io, dirs, present,
                   intact, trees, childVars, hostAlive>>

Next ==
    \/ \E c \in Calls, o \in Options, e \in Envs : Start(c, o, e)
    \/ \E c \in Calls : MkdirDataSys(c)
    \/ \E c \in Calls : MkdirDataDone(c)
    \/ \E c \in Calls : MkdirDataFail(c)
    \/ \E c \in Calls : DownloadFetched(c)
    \/ \E c \in Calls : DownloadFail(c)
    \/ \E c \in Calls : WriteSys(c)
    \/ \E c \in Calls : WriteDone(c)
    \/ \E c \in Calls : WriteFail(c)
    \/ \E c \in Calls : DecompressRead(c)
    \/ \E c \in Calls, wroteExec \in ExecWritten : DecompressPartial(c, wroteExec)
    \/ \E c \in Calls : DecompressSys(c)
    \/ \E c \in Calls : DecompressDone(c)
    \/ \E c \in Calls : DecompressFail(c)
    \/ \E c \in Calls : MkdirLogsSys(c)
    \/ \E c \in Calls : MkdirLogsDone(c)
    \/ \E c \in Calls : MkdirLogsFail(c)
    \/ \E c \in Calls : RemoveSys(c)
    \/ \E c \in Calls : RemoveDone(c)
    \/ \E c \in Calls : RemoveFail(c)
    \/ \E c \in Calls : OpenDone(c)
    \/ \E c \in Calls, spawned \in BOOLEAN : Spawn(c, spawned)
    \/ \E c \in Calls : OpenFail(c)
    \/ \E c \in Calls : Close(c)
    \/ Shutdown
    \/ \E c \in Calls : ChildExit(c)
    \/ \E c \in Calls : ChildWrite(c)

Spec == Init /\ [][Next]_vars

\* ------------------------------------------------------------------ claims

Has(seq, x) == \E i \in 1..Len(seq) : seq[i] = x
Count(seq, x) == Cardinality({i \in 1..Len(seq) : seq[i] = x})
Ended(c) == pc[c] \in {"returned", "rejected"}
SupportedName(name) == \E i \in 1..Len(formula.platforms) : formula.platforms[i].name = name
\* The check of line 58 found the installation / found it missing.
CacheHit(c) == chk[c] # {} /\ Val(chk[c]).extractDir /\ Val(chk[c]).execFile
CacheMiss(c) == chk[c] # {} /\ ~(Val(chk[c]).extractDir /\ Val(chk[c]).execFile)

\* C1: a call whose selected platform name matches no entry of
\* formula.platforms is rejected with the platform error having started no
\* filesystem or network operation, spawned nothing and registered nothing.
C1_UnsupportedPlatformFailsBeforeIO ==
    \A c \in Calls :
        (cfg[c] # {} /\ ~SupportedName(Val(cfg[c]).platform)) =>
            /\ pc[c] = "rejected"
            /\ err[c] = "platform"
            /\ ops[c] = <<>>
            /\ chk[c] = {}
            /\ server[c] = NoServer
            /\ Hooked(c) = 0

\* C1 witness: a call rejected for a platform selected through MONGO_PLATFORM
\* while another call of the same host has touched the disk.
C1_Witness ==
    \E c \in Calls :
        /\ pc[c] = "rejected"
        /\ err[c] = "platform"
        /\ Val(cfg[c]).platform = S_sunos
        /\ \E d \in Calls : pc[d] = "returned"

\* C2: once a call has returned after downloading and decompressing, every
\* call with the same configuration made after that return starts neither a
\* download nor a decompression: after dataDir its next step is logsDir.
C2_SecondCallSkipsInstall ==
    \A c1 \in Calls, c2 \in Calls :
        ( /\ c1 \in prior[c2]
          /\ pc[c1] = "returned"
          /\ cfg[c1] = cfg[c2]
          /\ Has(ops[c1], "download")
          /\ Has(ops[c1], "decompress") ) =>
            /\ ~Has(ops[c2], "download")
            /\ ~Has(ops[c2], "decompress")
            /\ Len(ops[c2]) >= 2 => ops[c2][2] = "mkdirp:logs"

\* C2 witness: the second such call has itself returned.
C2_Witness ==
    \E c1 \in Calls, c2 \in Calls :
        /\ c1 \in prior[c2]
        /\ pc[c1] = "returned"
        /\ cfg[c1] = cfg[c2]
        /\ Has(ops[c1], "download")
        /\ Has(ops[c1], "decompress")
        /\ pc[c2] = "returned"

\* C3: over all close() invocations on one handle (direct and through the
\* shutdown callback), at most one termination request, server.cancel(), is
\* issued, and the child is signalled at most once.
C3_AtMostOneTerminationRequest ==
    \A c \in Calls : cancels[c] <= 1 /\ kills[c] <= 1

\* C4: when a call's download failed, a later call with the same
\* configuration that finds the installation missing and the archive not
\* completely written downloads again instead of decompressing it.
C4_FailedDownloadIsNoCacheHit ==
    \A c1 \in Calls, c2 \in Calls :
        ( /\ c1 \in prior[c2]
          /\ err[c1] = "download"
          /\ cfg[c1] = cfg[c2]
          /\ CacheMiss(c2)
          /\ ~Val(chk[c2]).archiveIntact ) =>
            ops[c2][2] = "download"

\* C5: when a call's decompression failed, a later call with the same
\* configuration that finds the extracted tree incomplete decompresses again
\* before it goes on to the log and the spawn.
C5_FailedExtractionIsNoCacheHit ==
    \A c1 \in Calls, c2 \in Calls :
        ( /\ c1 \in prior[c2]
          /\ err[c1] = "decompress"
          /\ cfg[c1] = cfg[c2]
          /\ chk[c2] # {}
          /\ ~Val(chk[c2]).treeComplete ) =>
            ops[c2][2] # "mkdirp:logs"

\* C6: a call that finds sourceFile present when it checks the cache starts
\* no download; if extractDir or execFile is missing it decompresses the
\* cached archive as its next step.
C6_CachedArchiveNoDownload ==
    \A c \in Calls :
        (chk[c] # {} /\ Val(chk[c]).sourceFile) =>
            /\ ~Has(ops[c], "download")
            /\ CacheMiss(c) => ops[c][2] = "decompress"

\* C6 witness: a call that found the archive but no tree has returned.
C6_Witness ==
    \E c \in Calls :
        /\ chk[c] # {}
        /\ Val(chk[c]).sourceFile
        /\ ~Val(chk[c]).extractDir
        /\ pc[c] = "returned"
        /\ Has(ops[c], "decompress")

\* C7 as claimed: an ended call that found extractDir and execFile present
\* decompressed zero times; one that found either missing decompressed
\* exactly once.
C7_DecompressExactlyOnceOnMiss ==
    \A c \in Calls :
        Ended(c) =>
            /\ CacheHit(c) => Count(ops[c], "decompress") = 0
            /\ CacheMiss(c) => Count(ops[c], "decompress") = 1

\* C7 amended: an ended call that found extractDir and execFile present
\* decompressed zero times; one that found either missing decompressed
\* exactly once, unless its download failed, and then zero times.
C7_DecompressOnceUnlessDownloadFails ==
    \A c \in Calls :
        Ended(c) =>
            /\ CacheHit(c) => Count(ops[c], "decompress") = 0
            /\ CacheMiss(c) =>
                  Count(ops[c], "decompress") = (IF err[c] = "download" THEN 0 ELSE 1)

\* C7 witness: a call that found extractDir present and execFile missing has
\* returned, having decompressed once.
C7_Witness ==
    \E c \in Calls :
        /\ pc[c] = "returned"
        /\ CacheMiss(c)
        /\ Val(chk[c]).extractDir
        /\ Count(ops[c], "decompress") = 1

\* C8: when a step (directory creation, download, decompression, log
\* removal or open) fails, the call is rejected, that step is the last one
\* it started and was started once, and nothing is spawned, registered or
\* returned.
C8_FailureAbortsSequence ==
    \A c \in Calls :
        err[c] \notin {"", "platform"} =>
            /\ pc[c] = "rejected"
            /\ ops[c][Len(ops[c])] = err[c]
            /\ Count(ops[c], err[c]) = 1
            /\ ~Has(ops[c], "spawn")
            /\ ~Has(ops[c], "onShutdown")
            /\ server[c] = NoServer
            /\ Hooked(c) = 0

\* C8 witness: one call failed removing the old log, another decompressing.
C8_Witness ==
    /\ \E c \in Calls : err[c] = "remove"
    /\ \E c \in Calls : err[c] = "decompress"

\* C9: when the spawn of execFile fails, the call is rejected with a launch
\* error and no shutdown callback is registered for it.
C9_SpawnFailureRejects ==
    \A c \in Calls :
        (Has(ops[c], "spawn") /\ server[c].state = "failed") =>
            /\ pc[c] = "rejected"
            /\ ErrorKind(err[c]) = "LaunchError"
            /\ Hooked(c) = 0

RECURSIVE ReplaceAll(_, _, _)
\* Every occurrence of pat in s replaced by the text repl, taken literally.
ReplaceAll(s, pat, repl) ==
    LET i == IndexOf(s, pat)
    IN  IF i = 0 THEN s
        ELSE SubSeq(s, 1, i - 1) \o repl
             \o ReplaceAll(SubSeq(s, i + Len(pat), Len(s)), pat, repl)

\* C10: the spawn arguments are the template with every {port} and {data}
\* replaced, split on whitespace, followed by the extra arguments in order;
\* the template contributes as many arguments as it has words, whatever the
\* port and dataDir are.
C10_ArgsFromTemplate ==
    \A c \in Calls :
        server[c].state # "none" =>
            LET o      == Val(cfg[c])
                extras == IF o.args = {} THEN <<>> ELSE Val(o.args)
                filled == ReplaceAll(ReplaceAll(formula.execArgs, S_portPh, PortString(o.port)),
                                     S_dataPh, P(c).dataDir)
                n      == Len(Split(formula.execArgs, " "))
            IN  /\ server[c].args = Split(filled, " ") \o extras
                /\ Len(server[c].args) = n + Len(extras)
                /\ \A i \in 1..Len(extras) : server[c].args[n + i] = extras[i]

\* C11: in the step in which a call reaches Running, it has removed and
\* opened logFile before spawning; stdout and stderr of its child are both
\* bound to the file it opened, a file to which the child of no previous run
\* (a call that had ended when this one was made) is bound; and the file at
\* logFile holds nothing written by a previous run, neither by an earlier
\* host process nor by the child of such a call.
C11_FreshLogAtRunning ==
    [][\A c \in Calls :
          (pc[c] # "returned" /\ pc'[c] = "returned") =>
              /\ SubSeq(ops'[c], Len(ops'[c]) - 3, Len(ops'[c]))
                    = <<"remove", "open", "spawn", "onShutdown">>
              /\ server'[c].stdout = Val(logsFile[c]).inode
              /\ server'[c].stderr = Val(logsFile[c]).inode
              /\ Val(logsFile[c]).inode # 0
              /\ \A d \in prior[c] :
                    pc[d] = "returned" => server[d].stdout # server'[c].stdout
              /\ \A l \in logs' :
                    l.path = P(c).logFile =>
                        \A i \in 1..Len(l.data) : l.data[i] \notin prior[c] \cup {0}]_vars

\* C11 witness: a call made after an earlier one had returned, with the same
\* logFile, has reached Running; the child of the earlier call has written
\* its output, and the file at logFile is the one the new child is bound to,
\* with nothing of the earlier child in it.
C11_Witness ==
    \E c \in Calls, d \in Calls :
        /\ pc[c] = "returned"
        /\ d \in prior[c]
        /\ pc[d] = "returned"
        /\ P(c).logFile = P(d).logFile
        /\ Val(logsFile[d]).offset = MaxWrites
        /\ server[c].state = "running"
        /\ server[c].stdout # server[d].stdout
        /\ \E l \in logs :
              /\ l.path = P(c).logFile
              /\ l.inode = server[c].stdout
              /\ \A i \in 1..Len(l.data) : l.data[i] # d

\* An environment variable counts as set when it holds a non-empty string.
EnvSet(v) == v \notin {{}, {<<>>}}

\* The value the stated precedence gives: the passed option, else the set
\* environment variable, else the fallback.
Precedence(opt, envVar, fallback) ==
    IF opt # {} THEN Val(opt)
    ELSE IF EnvSet(envVar) THEN Val(envVar)
    ELSE fallback

\* C12: each of name, port, platform and dir resolves to the passed option,
\* else the environment variable (MONGO_PORT before PORT), else the formula
\* default or the hard-coded fallback; and no resolved field is undefined.
C12_PrecedenceNeverUndefined ==
    \A c \in Calls :
        cfg[c] # {} =>
            LET g == Val(given[c])
                r == Val(cfg[c])
            IN  /\ r.name = Precedence(g.opts.name, g.env.MONGO_NAME, S_default)
                /\ r.port = IF g.opts.port # {} THEN Val(g.opts.port)
                            ELSE IF EnvSet(g.env.MONGO_PORT) THEN StrPort(Val(g.env.MONGO_PORT))
                            ELSE IF EnvSet(g.env.PORT) THEN StrPort(Val(g.env.PORT))
                            ELSE NumPort(formula.port)
                /\ r.platform = Precedence(g.opts.platform, g.env.MONGO_PLATFORM, HostPlatform)
                /\ r.dir = Precedence(g.opts.dir, g.env.MONGO_DIR,
                                      PathResolve(<<TmpDir, S_mongo>>))
                /\ r.name # Undefined
                /\ r.platform # Undefined
                /\ r.dir # Undefined

\* C13: a returned handle has exactly one callback registered with the
\* shutdown hook (and nothing else has any); the termination signal invokes
\* close() exactly once for every returned handle and for nothing else, and
\* no close() runs after it.
C13_SignalClosesEachHandleOnce ==
    /\ [](\A c \in Calls : Hooked(c) = IF pc[c] = "returned" THEN 1 ELSE 0)
    /\ [][(hostAlive /\ ~hostAlive') =>
             \A c \in Calls :
                cancels'[c] = cancels[c] + (IF pc[c] = "returned" THEN 1 ELSE 0)]_vars
    /\ [][~hostAlive => cancels' = cancels]_vars

\* C13 witness: the signal arrived with two live handles nobody had closed,
\* and close() has run once for each.
C13_Witness ==
    /\ ~hostAlive
    /\ \A c \in Calls :
          /\ pc[c] = "returned"
          /\ server[c].state = "terminating"
          /\ closes[c] = 0
          /\ cancels[c] = 1

C15_LogFileExclusive ==
    [][\A d \in Calls :
          Alive(d) =>
              \A l \in logs :
                  l.inode = server[d].stdout =>
                      /\ \E k \in logs' :
                            /\ k.path = l.path
                            /\ k.inode = l.inode
                            /\ Len(k.data) >= Len(l.data)
                            /\ \A i \in 1..Len(l.data) :
                                  l.data[i] = d => k.data[i] = d
                      /\ \A c \in Calls \ {d} : server'[c].stdout # l.inode]_vars

\* The steps of one call in the order the code awaits them.
StepOrder == <<"mkdirp:data", "download", "decompress", "mkdirp:logs",
               "remove", "open", "spawn", "onShutdown">>
Rank(step) == CHOOSE i \in 1..Len(StepOrder) : StepOrder[i] = step

\* Where a call stands in the step that completes the operation `step`.
CompletingPc(step) ==
    CASE step = "mkdirp:data" -> "mkdirData"
      [] step = "download"    -> "writing"
      [] step = "decompress"  -> "decompressing"
      [] step = "mkdirp:logs" -> "mkdirLogs"
      [] step = "remove"      -> "removeLog"
      [] step = "open"        -> "spawning"
      [] OTHER                -> "none"

\* C16: the steps of a call run in strict sequence: the operations a call
\* has started are in the fixed order, and a further operation starts only
\* in the step that resumes the call after the one started last has
\* completed on the disk without an error (so decompression starts only
\* when the download has completed, and the spawn only after the
\* decompression has).
C16_StepsInStrictSequence ==
    /\ [](\A c \in Calls :
             \A i \in 1..(Len(ops[c]) - 1) :
                 Rank(ops[c][i]) < Rank(ops[c][i + 1]))
    /\ [][\A c \in Calls :
             ops'[c] # ops[c] =>
                 /\ Len(ops'[c]) > Len(ops[c])
                 /\ SubSeq(ops'[c], 1, Len(ops[c])) = ops[c]
                 /\ pc[c] = IF ops[c] = <<>> THEN "idle"
                            ELSE CompletingPc(ops[c][Len(ops[c])])
                 /\ (ops[c] # <<>> /\ pc[c] # "spawning") => io[c] = "done"
                 /\ err'[c] = ""]_vars

\* C16 witness: a call has gone through every step, download and
\* decompression included, and returned its handle.
C16_Witness ==
    \E c \in Calls : pc[c] = "returned" /\ ops[c] = StepOrder

\* The call has got past the install step: it has started preparing the log.
PastInstall(c) == Has(ops[c], "mkdirp:logs")

\* C17: whenever a call has got past the install step, sourceFile exists
\* on disk, whatever the cache held at the start (the state with extractDir
\* and execFile but without sourceFile included).
C17_SourceFileExistsAfterInstall ==
    \A c \in Calls : PastInstall(c) => P(c).sourceFile \in present

\* C18: nothing coordinates the calls: what a call does after its check
\* depends on what it saw on the disk alone, whatever the other calls are
\* doing: with the installation missing it downloads when it saw no archive
\* and decompresses at once when it saw one.
C18_NoCoordinationAcrossCalls ==
    \A c \in Calls :
        CacheMiss(c) =>
            ops[c][2] = IF Val(chk[c]).sourceFile THEN "decompress" ELSE "download"

\* C18 witness: two calls with the same configuration on an empty cache have
\* both seen sourceFile absent, both issued the download, and are both
\* decompressing into the same extractDir.
C18_Witness ==
    \E c \in Calls, d \in Calls :
        /\ c # d
        /\ cfg[c] = cfg[d]
        /\ \A x \in {c, d} :
              /\ chk[x] # {}
              /\ ~Val(chk[x]).extractDir
              /\ ~Val(chk[x]).execFile
              /\ ~Val(chk[x]).sourceFile
              /\ ops[x] = <<"mkdirp:data", "download", "decompress">>
              /\ pc[x] = "decompressing"
        /\ P(c).extractDir = P(d).extractDir

\* Call c was made after call d had returned its handle, with the same dir
\* and platform but another instance name or port.
LaterSibling(c, d) ==
    /\ d \in prior[c]
    /\ pc[d] = "returned"
    /\ cfg[c] # {}
    /\ Val(cfg[c]).dir = Val(cfg[d]).dir
    /\ Val(cfg[c]).platform = Val(cfg[d]).platform
    /\ \/ Val(cfg[c]).name # Val(cfg[d]).name
       \/ Val(cfg[c]).port # Val(cfg[d]).port

\* C19: a call made after a successful one with the same dir and platform
\* but another name or port downloads nothing and decompresses nothing, and
\* its dataDir and logFile differ from those of the earlier call.
C19_CacheSharedPathsDistinct ==
    \A c \in Calls, d \in Calls :
        LaterSibling(c, d) =>
            /\ ~Has(ops[c], "download")
            /\ ~Has(ops[c], "decompress")
            /\ P(c).dataDir # P(d).dataDir
            /\ P(c).logFile # P(d).logFile

\* C20: in the step that spawns the child of a call, dataDir and logsDir
\* exist, the file at logFile is the freshly opened, empty one the child is
\* bound to, the install check of the call was satisfied (the installation
\* was found, or this call's decompression went through without an error),
\* and when the step ends, with the handle returned, exactly one shutdown
\* callback is registered for the child.
C20_SpawnPreconditions ==
    [][\A c \in Calls :
          (~Has(ops[c], "spawn") /\ Has(ops'[c], "spawn")) =>
              /\ P(c).dataDir \in dirs'
              /\ P(c).logsDir \in dirs'
              /\ \E l \in logs' :
                    /\ l.path = P(c).logFile
                    /\ l.data = <<>>
                    /\ l.inode = server'[c].stdout
              /\ CacheHit(c) \/ (CacheMiss(c) /\ Has(ops[c], "decompress"))
              /\ err'[c] = ""
              /\ pc'[c] = "returned"
              /\ Cardinality({i \in 1..Len(hooks') : hooks'[i] = c}) = 1]_vars

====
